---- MODULE Spec2Model ----
(***************************************************************************)
(* A model of fasterapi's route scaffolder (scaffolder/generate_route.py): *)
(* the version resolver, create_route_file over a project directory, and   *)
(* the list handler of the route file it generates.                        *)
(*                                                                         *)
(* Python strings that the code takes apart (names, version folders) are   *)
(* sequences of one-character strings; text that is only put together      *)
(* (paths, messages, rendered lines) is a TLA+ string built with \o.       *)
(* An Optional value is a sequence of length at most one: <<>> is None.    *)
(***************************************************************************)
EXTENDS Integers, Sequences, FiniteSets, TLC

VARIABLES
    api,      \* <base>/api: "absent", "file" or "dir"
    ls,       \* os.listdir(<base>/api), in listing order: [name, kind]
    files,    \* <base>/api/<v>/<f>: [v, f] -> [kind, text], existing ones only
    prereq,   \* the schema/service/repository paths that exist
    sysPath,  \* sys.path of the process
    last,     \* what the call made by the latest step did (op = "none": no call)
    req,      \* query parameters of the request to the generated list handler
    resp      \* the handler's outcome for req

vars == <<api, ls, files, prereq, sysPath, last, req, resp>>

----------------------------------------------------------------------------
(* Bounds of the model *)

MaxEntries == 2
MaxListing == 3
MaxCalls == 1
MaxOld == 1
MaxInt == 3

----------------------------------------------------------------------------
(* Python strings *)

LowerAlpha ==
    <<"a","b","c","d","e","f","g","h","i","j","k","l","m",
      "n","o","p","q","r","s","t","u","v","w","x","y","z">>

UpperAlpha ==
    <<"A","B","C","D","E","F","G","H","I","J","K","L","M",
      "N","O","P","Q","R","S","T","U","V","W","X","Y","Z">>

Digits == <<"0","1","2","3","4","5","6","7","8","9">>

\* Code-point order of the characters the model uses.
CharOrder == <<"\n">> \o Digits \o UpperAlpha \o <<"_">> \o LowerAlpha

IndexIn(c, seq) == CHOOSE i \in 1..Len(seq) : seq[i] = c

InSeq(c, seq) == \E i \in 1..Len(seq) : seq[i] = c

Ord(c) == IndexIn(c, CharOrder)

IsDigit(c) == InSeq(c, Digits)

LowerChar(c) == IF InSeq(c, UpperAlpha) THEN LowerAlpha[IndexIn(c, UpperAlpha)] ELSE c

UpperChar(c) == IF InSeq(c, LowerAlpha) THEN UpperAlpha[IndexIn(c, LowerAlpha)] ELSE c

\* str.lower()
Lower(s) == [i \in 1..Len(s) |-> LowerChar(s[i])]

\* str.capitalize(): first character upper-cased, the rest lower-cased
Capitalize(s) == [i \in 1..Len(s) |-> IF i = 1 THEN UpperChar(s[1]) ELSE LowerChar(s[i])]

\* str.split(sep): the pieces between the separators, empty pieces kept
RECURSIVE SplitFrom(_, _, _)
SplitFrom(s, sep, cur) ==
    IF s = <<>> THEN <<cur>>
    ELSE IF Head(s) = sep THEN <<cur>> \o SplitFrom(Tail(s), sep, <<>>)
    ELSE SplitFrom(Tail(s), sep, Append(cur, Head(s)))

Split(s, sep) == SplitFrom(s, sep, <<>>)

\* "".join(parts)
RECURSIVE JoinAll(_)
JoinAll(parts) == IF parts = <<>> THEN <<>> ELSE Head(parts) \o JoinAll(Tail(parts))

\* The text of a Python string, for paths, messages and rendered code.
RECURSIVE Str(_)
Str(cs) == IF cs = <<>> THEN "" ELSE cs[1] \o Str(Tail(cs))

\* Python's < on strings: lexicographic by code point.
RECURSIVE StrLess(_, _)
StrLess(a, b) ==
    IF b = <<>> THEN FALSE
    ELSE IF a = <<>> THEN TRUE
    ELSE IF Ord(Head(a)) # Ord(Head(b)) THEN Ord(Head(a)) < Ord(Head(b))
    ELSE StrLess(Tail(a), Tail(b))

\* int(s) of a string of digits; int() strips surrounding whitespace.
RECURSIVE IntOfDigits(_, _)
IntOfDigits(s, acc) ==
    IF s = <<>> THEN acc
    ELSE IF Head(s) = "\n" THEN IntOfDigits(Tail(s), acc)
    ELSE IntOfDigits(Tail(s), acc * 10 + (IndexIn(Head(s), Digits) - 1))

PyInt(s) == IntOfDigits(s, 0)

----------------------------------------------------------------------------
(* The version resolver *)

BaseStr == "/proj"

ApiPathStr == BaseStr \o "/api"

AllDigits(s) == \A i \in 1..Len(s) : IsDigit(s[i])

\* re.match(r'^v\d+$', d): in Python, $ also matches before a final newline.
IsVersionName(d) ==
    /\ Len(d) >= 2
    /\ d[1] = "v"
    /\ \/ AllDigits(Tail(d))
       \/ /\ Len(d) >= 3
          /\ d[Len(d)] = "\n"
          /\ AllDigits(SubSeq(d, 2, Len(d) - 1))

\* lambda v: int(v[1:])
VersionKey(v) == PyInt(Tail(v))

Ok(name) == [kind |-> "ok", name |-> name, exc |-> "", msg |-> ""]

Raise(exc, msg) == [kind |-> "raise", name |-> <<>>, exc |-> exc, msg |-> msg]

\* max(seq, key=...): the first element whose key no other exceeds
RECURSIVE MaxByKey(_, _)
MaxByKey(seq, best) ==
    IF seq = <<>> THEN best
    ELSE IF VersionKey(Head(seq)) > VersionKey(best) THEN MaxByKey(Tail(seq), Head(seq))
    ELSE MaxByKey(Tail(seq), best)

\* max(seq) with no key: Python's order on the names themselves
RECURSIVE MaxByText(_, _)
MaxByText(seq, best) ==
    IF seq = <<>> THEN best
    ELSE IF StrLess(best, Head(seq)) THEN MaxByText(Tail(seq), Head(seq))
    ELSE MaxByText(Tail(seq), best)

\* max(version_dirs)
PickLexical(version_dirs) == MaxByText(Tail(version_dirs), Head(version_dirs))

\* max(version_dirs, key=lambda v: int(v[1:]))
PickHighest(version_dirs) == MaxByKey(Tail(version_dirs), Head(version_dirs))

\* os.path.isdir(os.path.join(base_path, d))
IsDir(e) == e.kind = "dir"

RECURSIVE VersionDirsOf(_)
VersionDirsOf(listing) ==
    IF listing = <<>> THEN <<>>
    ELSE IF IsDir(Head(listing)) /\ IsVersionName(Head(listing).name)
         THEN <<Head(listing).name>> \o VersionDirsOf(Tail(listing))
         ELSE VersionDirsOf(Tail(listing))

RECURSIVE SubdirsOf(_)
SubdirsOf(listing) ==
    IF listing = <<>> THEN <<>>
    ELSE IF IsDir(Head(listing))
         THEN <<Head(listing).name>> \o SubdirsOf(Tail(listing))
         ELSE SubdirsOf(Tail(listing))

get_highest_numbered_api_version(a, listing) ==
    IF a = "absent"
    THEN Raise("FileNotFoundError",
               "The directory '" \o ApiPathStr \o "' does not exist.")
    ELSE IF a = "file"
    THEN Raise("NotADirectoryError",
               "[Errno 20] Not a directory: '" \o ApiPathStr \o "'")
    ELSE IF VersionDirsOf(listing) = <<>>
    THEN Raise("FileNotFoundError",
               "No version folders like 'v1', 'v2' found in '" \o ApiPathStr \o "'.")
    ELSE Ok(PickHighest(VersionDirsOf(listing)))

\* The outcomes get_latest_modified_api_version can have: the modification
\* times are not part of the modelled file system, so any subdirectory may
\* be the most recently modified one.
get_latest_modified_api_version(a, listing) ==
    IF a = "absent"
    THEN {Raise("FileNotFoundError",
                "The directory '" \o ApiPathStr \o "' does not exist.")}
    ELSE IF a = "file"
    THEN {Raise("NotADirectoryError",
                "[Errno 20] Not a directory: '" \o ApiPathStr \o "'")}
    ELSE IF SubdirsOf(listing) = <<>>
    THEN {Raise("FileNotFoundError",
                "No version folders found in '" \o ApiPathStr \o "'.")}
    ELSE {Ok(SubdirsOf(listing)[i]) : i \in 1..Len(SubdirsOf(listing))}

----------------------------------------------------------------------------
(* The route template *)

\* the name as given
KeepCase(name) == name

\* db_name = name.lower()
DbName(name) == Lower(name)

\* class_name = "".join(part.capitalize() for part in db_name.split("_"))
ClassName(db) ==
    LET parts == Split(db, "_")
    IN  JoinAll([i \in 1..Len(parts) |-> Capitalize(parts[i])])

\* The pieces of an f-string: literal text, the escapes {{ and }}, and a
\* replacement field {expr}.
Lit(s) == [t |-> "lit", s |-> s]
LBrace == [t |-> "{{", s |-> ""]
RBrace == [t |-> "}}", s |-> ""]
Field(e) == [t |-> "field", s |-> e]

\* str() of a replacement field's expression where the f-string is
\* evaluated: db_name and class_name are locals of create_route_file, and
\* id is not, so that name is Python's builtin function.
FieldValue(e, db, cls) ==
    CASE e = "db_name" -> Str(db)
      [] e = "class_name" -> Str(cls)
      [] e = "id" -> "<built-in function id>"

RenderPiece(p, db, cls) ==
    CASE p.t = "lit" -> p.s
      [] p.t = "{{" -> "{"
      [] p.t = "}}" -> "}"
      [] p.t = "field" -> FieldValue(p.s, db, cls)

RECURSIVE RenderLine(_, _, _)
RenderLine(line, db, cls) ==
    IF line = <<>> THEN ""
    ELSE RenderPiece(Head(line), db, cls) \o RenderLine(Tail(line), db, cls)

\* The lines of route_code that declare the router and its endpoints, and
\* the signature lines of the update handler.
RouteTemplate == <<
    \* 139
    <<Lit("router = APIRouter(prefix=\"/"), Field("db_name"), Lit("s\", tags=[\""),
      Field("class_name"), Lit("s\"])")>>,
    \* 145-146
    <<Lit("@router.get(\"/\", response_model=APIResponse[List["),
      Field("class_name"), Lit("Out]])")>>,
    <<Lit("async def list_"), Field("db_name"), Lit("s(")>>,
    \* 190-191
    <<Lit("@router.get(\"/"), LBrace, Lit("id"), RBrace,
      Lit("\", response_model=APIResponse["), Field("class_name"), Lit("Out])")>>,
    <<Lit("async def get_"), Field("db_name"), Lit("_by_id(")>>,
    \* 206-207
    <<Lit("@router.post(\"/\", response_model=APIResponse["), Field("class_name"),
      Lit("Out], status_code=status.HTTP_201_CREATED)")>>,
    <<Lit("async def create_"), Field("db_name"), Lit("(payload: "),
      Field("class_name"), Lit("Base):")>>,
    \* 227-231
    <<Lit("@router.patch(\"/"), Field("id"),
      Lit("\", response_model=APIResponse["), Field("class_name"), Lit("Out])")>>,
    <<Lit("async def update_"), Field("db_name"), Lit("(")>>,
    <<Lit("    id: str = Path(..., description=\"ID of the "), Field("db_name"),
      Lit(" to update\"),")>>,
    <<Lit("    payload: "), Field("class_name"), Lit("Update")>>,
    \* 246-247
    <<Lit("@router.delete(\"/"), LBrace, Lit("id"), RBrace,
      Lit("\", response_model=APIResponse[None])")>>,
    <<Lit("async def delete_"), Field("db_name"),
      Lit("(id: str = Path(..., description=\"ID of the "), Field("db_name"),
      Lit(" to delete\")):")>>
>>

\* route_code for the given identifiers
Render(db, cls) ==
    [i \in 1..Len(RouteTemplate) |-> RenderLine(RouteTemplate[i], db, cls)]

\* The expressions of the template's replacement fields
TemplateFields ==
    UNION {{RouteTemplate[i][j].s :
               j \in {k \in 1..Len(RouteTemplate[i]) : RouteTemplate[i][k].t = "field"}} :
           i \in 1..Len(RouteTemplate)}

----------------------------------------------------------------------------
(* create_route_file *)

SchemaPath(db) == BaseStr \o "/schemas/" \o Str(db) \o ".py"
ServicePath(db) == BaseStr \o "/services/" \o Str(db) \o "_service.py"
RepoPath(db) == BaseStr \o "/repositories/" \o Str(db) \o ".py"

RouteFile(db) == Str(db) \o ".py"

\* What create_route_file derives from the name alone: the identifiers,
\* the three required paths, the route file's name and route_code.
Descriptor(name) ==
    [name |-> name,
     db_name |-> DbName(name),
     class_name |-> ClassName(DbName(name)),
     schema_path |-> SchemaPath(DbName(name)),
     service_path |-> ServicePath(DbName(name)),
     repo_path |-> RepoPath(DbName(name)),
     route_file |-> RouteFile(DbName(name)),
     route_code |-> Render(DbName(name), ClassName(DbName(name)))]

RoutePath(version, d) == ApiPathStr \o "/" \o Str(version) \o "/" \o d.route_file
RouteKey(version, d) == [v |-> version, f |-> d.route_file]

\* The same files, the repository first
RequiredRepoFirst(d) ==
    << [path |-> d.repo_path, desc |-> "Repository"],
       [path |-> d.schema_path, desc |-> "Schema"],
       [path |-> d.service_path, desc |-> "Service"] >>

\* The list the existence check walks, in its order
Required(d) ==
    << [path |-> d.schema_path, desc |-> "Schema"],
       [path |-> d.service_path, desc |-> "Service"],
       [path |-> d.repo_path, desc |-> "Repository"] >>

\* The loop over the required files: the paths it examined, and the first
\* one that does not exist (none: <<>>); it returns at the first miss.
RECURSIVE CheckRequired(_, _, _)
CheckRequired(reqs, existing, examined) ==
    IF reqs = <<>> THEN [missing |-> <<>>, examined |-> examined]
    ELSE IF Head(reqs).path \notin existing
         THEN [missing |-> <<Head(reqs)>>, examined |-> Append(examined, Head(reqs).path)]
         ELSE CheckRequired(Tail(reqs), existing, Append(examined, Head(reqs).path))

\* A check that goes on whatever is missing
NeverAbort(chk) == FALSE

\* if not path.exists(): print(...); return False
AbortsOnMissing(chk) == chk.missing # <<>>

NoOutcome == [kind |-> "none", name |-> <<>>, exc |-> "", msg |-> ""]

\* if not version: None and "" are both false
VersionGiven(version) == version # <<>> /\ version[1] # <<>>

\* version = get_highest_numbered_api_version(base_dir)
ResolveVersion(a, listing) ==
    [res |-> get_highest_numbered_api_version(a, listing),
     trace |-> <<"get_highest_numbered_api_version">>]

HasEntry(listing, n) == \E i \in 1..Len(listing) : listing[i].name = n

EntryKind(listing, n) ==
    IF HasEntry(listing, n)
    THEN listing[CHOOSE i \in 1..Len(listing) : listing[i].name = n].kind
    ELSE "absent"

InsertAt(seq, pos, e) ==
    LET p == IF pos > Len(seq) + 1 THEN Len(seq) + 1 ELSE pos
    IN  SubSeq(seq, 1, p - 1) \o <<e>> \o SubSeq(seq, p, Len(seq))

FileOf(text) == [kind |-> "file", text |-> text]
DirNode == [kind |-> "dir", text |-> <<>>]

WriteFailed(exc, msg, a, listing, fl, trace) ==
    [ok |-> FALSE, exc |-> exc, msg |-> msg, api |-> a, ls |-> listing, files |-> fl,
     trace |-> trace]

\* route_path.parent.mkdir(parents=True, exist_ok=True), then
\* open("w") and f.write(route_code).  fault names the call the operating
\* system refuses for a reason outside the modelled state (permissions, a
\* full disk); pos is where a created version folder shows in the listing.
WriteRoute(a, listing, fl, version, d, fault, pos) ==
    LET key == RouteKey(version, d)
        vk == IF a = "dir" THEN EntryKind(listing, version) ELSE "absent"
        madeLs == IF a = "dir" /\ vk = "dir" THEN listing
                  ELSE InsertAt(IF a = "dir" THEN listing ELSE <<>>, pos,
                                [name |-> version, kind |-> "dir"])
    IN  IF a = "file"
        THEN WriteFailed("NotADirectoryError",
                         "[Errno 20] Not a directory: '" \o ApiPathStr \o "/"
                            \o Str(version) \o "'", a, listing, fl, <<"mkdir">>)
        ELSE IF vk = "file"
        THEN WriteFailed("FileExistsError",
                         "[Errno 17] File exists: '" \o ApiPathStr \o "/"
                            \o Str(version) \o "'", a, listing, fl, <<"mkdir">>)
        ELSE IF fault = "mkdir" /\ vk = "absent"
        THEN WriteFailed("PermissionError", "[Errno 13] Permission denied",
                         a, listing, fl, <<"mkdir">>)
        ELSE IF key \in DOMAIN fl /\ fl[key].kind = "dir"
        THEN WriteFailed("IsADirectoryError",
                         "[Errno 21] Is a directory: '" \o RoutePath(version, d) \o "'",
                         "dir", madeLs, fl, <<"mkdir", "open">>)
        ELSE IF fault = "open"
        THEN WriteFailed("PermissionError", "[Errno 13] Permission denied",
                         "dir", madeLs, fl, <<"mkdir", "open">>)
        ELSE IF fault = "write"
        THEN WriteFailed("OSError", "[Errno 28] No space left on device",
                         "dir", madeLs, (key :> FileOf(<<>>)) @@ fl,
                         <<"mkdir", "open", "write">>)
        ELSE [ok |-> TRUE, exc |-> "", msg |-> "", api |-> "dir", ls |-> madeLs,
              files |-> (key :> FileOf(d.route_code)) @@ fl,
              trace |-> <<"mkdir", "open", "write">>]

Fail(text) == [mark |-> "fail", text |-> text]
Done(text) == [mark |-> "ok", text |-> text]

Returned(result, exc, out, trace, res, used, a, listing, fl) ==
    [result |-> result, exc |-> exc, out |-> out, trace |-> trace, res |-> res,
     used |-> used, api |-> a, ls |-> listing, files |-> fl]

\* Write route file: the try block and its except Exception
WriteStep(v, d, rv, t1, w) ==
    IF w.ok
    THEN Returned("True", "", <<Done("Route file created: " \o RoutePath(v, d))>>,
                  t1 \o w.trace, rv.res, <<v>>, w.api, w.ls, w.files)
    ELSE Returned("False", "", <<Fail("Failed to write route file: " \o w.msg)>>,
                  t1 \o w.trace, rv.res, <<v>>, w.api, w.ls, w.files)

\* Check for required files, then render and write
CheckStep(v, d, rv, chk, fault, pos, a, listing, fl) ==
    IF AbortsOnMissing(chk)
    THEN Returned("False", "",
                  <<Fail(chk.missing[1].desc \o " file " \o chk.missing[1].path
                            \o " not found.")>>,
                  rv.trace \o [i \in 1..Len(chk.examined) |-> "exists " \o chk.examined[i]],
                  rv.res, <<v>>, a, listing, fl)
    ELSE WriteStep(v, d, rv,
                   rv.trace \o [i \in 1..Len(chk.examined) |-> "exists " \o chk.examined[i]],
                   WriteRoute(a, listing, fl, v, d, fault, pos))

\* Determine API version: only FileNotFoundError is caught
VersionStep(version, d, rv, fault, pos, a, listing, fl, existing) ==
    IF rv.res.kind = "raise" /\ rv.res.exc = "FileNotFoundError"
    THEN Returned("False", "", <<Fail(rv.res.msg)>>, rv.trace, rv.res, <<>>,
                  a, listing, fl)
    ELSE IF rv.res.kind = "raise"
    THEN Returned("raise", rv.res.exc, <<>>, rv.trace, rv.res, <<>>, a, listing, fl)
    ELSE CheckStep(IF VersionGiven(version) THEN version[1] ELSE rv.res.name,
                   d, rv, CheckRequired(Required(d), existing, <<>>),
                   fault, pos, a, listing, fl)

\* The body of create_route_file after sys.path.append, for the resource
\* d = Descriptor(name), on the project state (a, listing, fl, existing).
CreateRouteFile(d, version, fault, pos, a, listing, fl, existing) ==
    VersionStep(version, d,
                IF VersionGiven(version)
                THEN [res |-> NoOutcome, trace |-> <<>>]
                ELSE ResolveVersion(a, listing),
                fault, pos, a, listing, fl, existing)

----------------------------------------------------------------------------
(* The list handler of the generated route file *)

PAGE_SIZE == 50

HttpError(code, detail) == [status |-> code, detail |-> detail, retrieved |-> <<>>]

\* items = await retrieve_<db_name>s(start=..., stop=...); return APIResponse(200, ...)
Fetched(start, stop, detail) ==
    [status |-> 200, detail |-> detail, retrieved |-> <<[start |-> start, stop |-> stop]>>]

\* if stop <= start
StopNotAboveStart(start, stop) == stop <= start

\* if stop < start
StopBeforeStart(start, stop) == stop < start

\* list_<db_name>s(start, stop, page_number): the status it answers with and
\* the calls it made to the service's retrieve
ListHandler(start, stop, page_number) ==
    IF start # <<>> \/ stop # <<>>
    THEN IF start = <<>> \/ stop = <<>>
         THEN HttpError(400, "Both 'start' and 'stop' must be provided together.")
         ELSE IF StopBeforeStart(start[1], stop[1])
         THEN HttpError(400, "'stop' cannot be less than 'start'.")
         ELSE Fetched(start[1], stop[1], "Fetched successfully")
    ELSE IF page_number # <<>>
    THEN IF page_number[1] < 0
         THEN HttpError(400, "'page_number' cannot be negative.")
         ELSE Fetched(page_number[1] * PAGE_SIZE, page_number[1] * PAGE_SIZE + PAGE_SIZE,
                      "Fetched page successfully")
    ELSE Fetched(0, 100, "Fetched first 100 records successfully")

----------------------------------------------------------------------------
(* The state machine *)

order_item == <<"o","r","d","e","r","_","i","t","e","m">>
Order_Item == <<"O","r","d","e","r","_","I","t","e","m">>

v2 == <<"v","2">>
v7 == <<"v","7">>
v9 == <<"v","9">>
v10 == <<"v","1","0">>
v010 == <<"v","0","1","0">>
v3nl == <<"v","3","\n">>
vx == <<"v","x">>
old == <<"o","l","d">>

\* Resource names create_route_file is called with
Names == {order_item, Order_Item}

\* Its version argument: None, "", an existing or a new folder
Versions == {<<>>, << <<>> >>, <<v2>>, <<v7>>}

Faults == {"none", "mkdir", "open", "write"}

\* Names of the entries of <base>/api in the generator's runs
GenPool == {v2, v10, old}

\* and in the resolver's runs
ResolverPool == {v2, v9, v10, v010, v3nl, vx, old}

\* What the calls derive from those names
Resources == {Descriptor(n) : n \in Names}

OrderItem == Descriptor(order_item)

Kinds == {"file", "dir"}

OptInt == {<<>>} \cup {<<n>> : n \in (0 - MaxInt)..MaxInt}

SysPath0 == <<"/usr/lib/python3">>

EmptyFiles == [k \in {} |-> DirNode]

NoCall ==
    [op |-> "none", name |-> <<>>, version |-> <<>>, fault |-> "none",
     result |-> "", exc |-> "", out |-> <<>>, trace |-> <<>>, res |-> NoOutcome,
     used |-> <<>>, preApi |-> "absent", preLs |-> <<>>, preFiles |-> EmptyFiles]

NoResp == [status |-> 0, detail |-> "", retrieved |-> <<>>]

Init ==
    /\ api = "absent"
    /\ ls = <<>>
    /\ files = EmptyFiles
    /\ prereq = {}
    /\ sysPath = SysPath0
    /\ last = NoCall
    /\ req = [start |-> <<>>, stop |-> <<>>, page_number |-> <<>>]
    /\ resp = NoResp

\* Somebody creates <base>/api as a directory
EnvMkdirApi ==
    /\ api = "absent"
    /\ api' = "dir"
    /\ last' = NoCall
    /\ UNCHANGED <<ls, files, prereq, sysPath, req, resp>>

\* or as a regular file
EnvTouchApi ==
    /\ api = "absent"
    /\ api' = "file"
    /\ last' = NoCall
    /\ UNCHANGED <<ls, files, prereq, sysPath, req, resp>>

\* An entry appears in <base>/api; os.listdir gives no order, so it may
\* show anywhere in the listing.
EnvCreateEntry(pool, max) ==
    /\ api = "dir"
    /\ Len(ls) < max
    /\ \E n \in pool, k \in Kinds, pos \in 1..(Len(ls) + 1) :
          /\ ~HasEntry(ls, n)
          /\ ls' = InsertAt(ls, pos, [name |-> n, kind |-> k])
    /\ last' = NoCall
    /\ UNCHANGED <<api, files, prereq, sysPath, req, resp>>

\* A schema, service or repository file of order_item is written
EnvTouchPrereq ==
    /\ \E p \in {OrderItem.schema_path, OrderItem.service_path, OrderItem.repo_path} :
          /\ p \notin prereq
          /\ prereq' = prereq \cup {p}
    /\ last' = NoCall
    /\ UNCHANGED <<api, ls, files, sysPath, req, resp>>

EnvMade(fl) == {k \in DOMAIN fl : fl[k] \in {FileOf(<<"old">>), DirNode}}

\* Something is already at the route's path: a file with other text, or a
\* directory
EnvPutRoute ==
    /\ api = "dir"
    /\ Cardinality(EnvMade(files)) < MaxOld
    /\ \E i \in 1..Len(ls), node \in {FileOf(<<"old">>), DirNode} :
          /\ ls[i].kind = "dir"
          /\ RouteKey(ls[i].name, OrderItem) \notin DOMAIN files
          /\ files' = (RouteKey(ls[i].name, OrderItem) :> node) @@ files
    /\ last' = NoCall
    /\ UNCHANGED <<api, ls, prereq, sysPath, req, resp>>

\* The operating system can refuse a call of the write only in a run that
\* gets there, and a created folder has a place in the listing only when
\* the folder asked for is not there yet.
FaultChoices(d) ==
    IF {d.schema_path, d.service_path, d.repo_path} \subseteq prereq
    THEN Faults ELSE {"none"}

PosChoices(version) ==
    IF VersionGiven(version) /\ ~HasEntry(ls, version[1])
    THEN {1, Len(ls) + 1} ELSE {1}

\* create_route_file(name, version, base_dir)
Call ==
    /\ Len(sysPath) < Len(SysPath0) + MaxCalls
    /\ \E d \in Resources, version \in Versions :
       \E fault \in FaultChoices(d), pos \in PosChoices(version) :
          \E r \in {CreateRouteFile(d, version, fault, pos, api, ls, files, prereq)} :
              /\ sysPath' = Append(sysPath, BaseStr)
              /\ api' = r.api
              /\ ls' = r.ls
              /\ files' = r.files
              /\ last' = [op |-> "create_route_file", name |-> d.name,
                          version |-> version, fault |-> fault,
                          result |-> r.result, exc |-> r.exc, out |-> r.out,
                          trace |-> r.trace, res |-> r.res, used |-> r.used,
                          preApi |-> api, preLs |-> ls, preFiles |-> files]
    /\ UNCHANGED <<prereq, req, resp>>

Observed(op, r) ==
    [NoCall EXCEPT !.op = op, !.res = r, !.preApi = api, !.preLs = ls]

\* get_highest_numbered_api_version(base_dir)
CallHighest ==
    /\ last' = Observed("get_highest_numbered_api_version",
                        get_highest_numbered_api_version(api, ls))
    /\ UNCHANGED <<api, ls, files, prereq, sysPath, req, resp>>

\* get_latest_modified_api_version(base_dir)
CallLatest ==
    /\ \E r \in get_latest_modified_api_version(api, ls) :
          last' = Observed("get_latest_modified_api_version", r)
    /\ UNCHANGED <<api, ls, files, prereq, sysPath, req, resp>>

\* A request reaches the generated list endpoint
Request ==
    /\ \E s \in OptInt, e \in OptInt, p \in OptInt :
          /\ req' = [start |-> s, stop |-> e, page_number |-> p]
          /\ resp' = ListHandler(s, e, p)
    /\ UNCHANGED <<api, ls, files, prereq, sysPath, last>>

Next ==
    \/ EnvMkdirApi
    \/ EnvTouchApi
    \/ EnvCreateEntry(GenPool, MaxEntries)
    \/ EnvTouchPrereq
    \/ EnvPutRoute
    \/ Call

Spec == Init /\ [][Next]_vars

NextResolver ==
    \/ EnvMkdirApi
    \/ EnvTouchApi
    \/ EnvCreateEntry(ResolverPool, MaxListing)
    \/ CallHighest
    \/ CallLatest

SpecResolver == Init /\ [][NextResolver]_vars

NextList == Request

SpecList == Init /\ [][NextList]_vars

----------------------------------------------------------------------------
(* What the claims speak of *)

Highest == "get_highest_numbered_api_version"
Create == "create_route_file"

\* The names of the listing's directories that the version pattern accepts
MatchingDirs(listing) ==
    {listing[i].name : i \in {j \in 1..Len(listing) :
        listing[j].kind = "dir" /\ IsVersionName(listing[j].name)}}

\* The listing without the entries that are no directory or do not match
RECURSIVE OnlyMatching(_)
OnlyMatching(listing) ==
    IF listing = <<>> THEN <<>>
    ELSE IF Head(listing).kind = "dir" /\ IsVersionName(Head(listing).name)
         THEN <<Head(listing)>> \o OnlyMatching(Tail(listing))
         ELSE OnlyMatching(Tail(listing))

NamesOf(listing) == {listing[i].name : i \in 1..Len(listing)}

HasSubdir(a, listing) == a = "dir" /\ \E i \in 1..Len(listing) : listing[i].kind = "dir"

\* The paths and the text expected for the resource order_item
ExpSchema == "/proj/schemas/order_item.py"
ExpService == "/proj/services/order_item_service.py"
ExpRepo == "/proj/repositories/order_item.py"
ExpRouteFile == "order_item.py"

ExpRequired == <<ExpSchema, ExpService, ExpRepo>>
ExpDesc == <<"Schema", "Service", "Repository">>

Missing == {i \in 1..3 : ExpRequired[i] \notin prereq}

FirstMissing == CHOOSE i \in Missing : \A j \in Missing : i <= j

\* The existence checks a run made, in order
Examined(trace) == SelectSeq(trace, LAMBDA t : t \in {"exists " \o ExpRequired[i] : i \in 1..3})

WriteOps(trace) == SelectSeq(trace, LAMBDA t : t \in {"mkdir", "open", "write"})

IsCreate == last.op = Create

\* The run got a version: the one given, or the one resolved
GotVersion == IsCreate /\ last.used # <<>>

ExpKey == [v |-> last.used[1], f |-> ExpRouteFile]

Untouched == api = last.preApi /\ ls = last.preLs /\ files = last.preFiles

----------------------------------------------------------------------------
C2_NotFoundInThreeCases ==
    (last.op = Highest /\
        \/ last.preApi = "absent"
        \/ last.preApi # "absent" /\ ~HasSubdir(last.preApi, last.preLs)
        \/ HasSubdir(last.preApi, last.preLs) /\ MatchingDirs(last.preLs) = {})
    => last.res.kind = "raise" /\ last.res.exc = "FileNotFoundError"

(* C3: called without a version, create_route_file resolves it with the   *)
(* highest-numbered policy only; when that fails, the run ends with False *)
(* before any existence check, and the latest-modified policy is never    *)
(* called.                                                                 *)
C3_HighestOnlyNoFallback ==
    (IsCreate /\ ~VersionGiven(last.version))
    => /\ Len(last.trace) >= 1 /\ last.trace[1] = Highest
       /\ \A i \in 1..Len(last.trace) : last.trace[i] # "get_latest_modified_api_version"
       /\ last.res.kind = "raise"
             => /\ last.result = "False"
                /\ last.trace = <<Highest>>
                /\ Untouched

(* C4: the required files are examined in the order schema, service,      *)
(* repository, up to the first that does not exist; the failure names     *)
(* that one, and no later file is examined.                                *)
C4_FirstMissingReported ==
    GotVersion
    => IF Missing = {}
       THEN /\ Examined(last.trace) = [i \in 1..3 |-> "exists " \o ExpRequired[i]]
            /\ \A i \in 1..Len(last.out) :
                  \A k \in 1..3 : last.out[i].text # ExpDesc[k] \o " file "
                                      \o ExpRequired[k] \o " not found."
       ELSE /\ last.result = "False"
            /\ Examined(last.trace) =
                  [i \in 1..FirstMissing |-> "exists " \o ExpRequired[i]]
            /\ last.out = <<Fail(ExpDesc[FirstMissing] \o " file "
                                    \o ExpRequired[FirstMissing] \o " not found.")>>
            /\ WriteOps(last.trace) = <<>>

\* Schema and service exist, the repository file does not, and the
\* failure names the repository file
C4_Witness ==
    /\ GotVersion
    /\ Missing = {3}
    /\ last.out = <<Fail("Repository file /proj/repositories/order_item.py not found.")>>

(* C5: every failure of generation ends inside create_route_file with a   *)
(* failure message and the result False; no exception reaches the caller. *)
C5_NoUncaughtFault ==
    IsCreate
    => /\ last.result \in {"True", "False"}
       /\ last.result = "False"
             => Len(last.out) = 1 /\ last.out[1].mark = "fail"

(* C6, as stated: with the version resolved and the three required files  *)
(* there, the rendered text is written to                                  *)
(* <base>/api/<version>/<db_name>.py, missing directories are created,     *)
(* whatever was at that path is replaced, and the result is True.          *)
RouteWritten ==
    /\ last.result = "True"
    /\ api = "dir"
    /\ EntryKind(ls, last.used[1]) = "dir"
    /\ ExpKey \in DOMAIN files
    /\ files[ExpKey] = FileOf(Descriptor(last.name).route_code)
    /\ \A k \in DOMAIN files : k # ExpKey =>
          k \in DOMAIN last.preFiles /\ files[k] = last.preFiles[k]

C6_AlwaysWritten == (GotVersion /\ Missing = {}) => RouteWritten

\* Creating the directories and writing raise no error: api and the
\* version folder are absent or directories, the route's path is no
\* directory, and the operating system refuses nothing.
NoWriteError ==
    /\ last.preApi # "file"
    /\ last.preApi = "dir" => EntryKind(last.preLs, last.used[1]) # "file"
    /\ ExpKey \in DOMAIN last.preFiles => last.preFiles[ExpKey].kind = "file"
    /\ last.fault = "none"

(* C6, amended: the same, provided creating the directories and writing   *)
(* the file raise no error.                                                *)
C6_WrittenUnlessWriteFails == (GotVersion /\ Missing = {} /\ NoWriteError) => RouteWritten

\* Order_Item is generated over a file with other text at order_item.py
C6_Witness ==
    /\ GotVersion /\ last.name = Order_Item /\ last.result = "True"
    /\ ExpKey \in DOMAIN last.preFiles
    /\ last.preFiles[ExpKey] = FileOf(<<"old">>)
    /\ files[ExpKey].text # <<"old">>

Generated(node) == node.kind = "file" /\ node.text \notin {<<"old">>, <<>>}

\* The lines of the generated text that declare the router and the endpoints
Declarations(text) == <<text[1], text[2], text[4], text[6], text[8], text[12]>>

ExpDeclarations == <<
    "router = APIRouter(prefix=\"/order_items\", tags=[\"OrderItems\"])",
    "@router.get(\"/\", response_model=APIResponse[List[OrderItemOut]])",
    "@router.get(\"/{id}\", response_model=APIResponse[OrderItemOut])",
    "@router.post(\"/\", response_model=APIResponse[OrderItemOut], status_code=status.HTTP_201_CREATED)",
    "@router.patch(\"/{id}\", response_model=APIResponse[OrderItemOut])",
    "@router.delete(\"/{id}\", response_model=APIResponse[None])" >>

(* C7: a generated file declares the five endpoints GET /, GET /{id},     *)
(* POST /, PATCH /{id} and DELETE /{id} under the prefix /<db_name>s, and  *)
(* the template substitutes db_name and class_name only.                   *)
C7_FiveEndpoints ==
    \A k \in DOMAIN files :
        Generated(files[k])
        => /\ Declarations(files[k].text) = ExpDeclarations
           /\ TemplateFields \subseteq {"db_name", "class_name"}

Given(x) == x # <<>>

C9_ProcessStateUnchanged == sysPath = SysPath0

(* C10: a run that ends with False because the version could not be       *)
(* resolved or a required file is missing leaves <base> as it was, and a   *)
(* run that creates a directory or opens the route file found all three    *)
(* required files.                                                         *)
C10_WriteOnlyAfterChecks ==
    IsCreate
    => /\ (last.result = "False" /\ (last.res.kind = "raise" \/ Missing # {}))
             => Untouched /\ WriteOps(last.trace) = <<>>
       /\ (~Untouched \/ WriteOps(last.trace) # <<>>)
             => /\ Missing = {}
                /\ Examined(last.trace) = [i \in 1..3 |-> "exists " \o ExpRequired[i]]

\* A run for a version folder that is not there ends at the missing
\* service file, and the folder is still not there
C10_Witness ==
    /\ GotVersion /\ last.used = <<v7>>
    /\ Missing = {2, 3}
    /\ last.result = "False"
    /\ ~HasEntry(ls, v7)

====
